---------------------------- MODULE Spec2Model ----------------------------
(***************************************************************************)
(* OCPP 1.6 central system of iconnor/ocpp_charge_profile (server.py,      *)
(* solar_api.py).  One ChargePoint session per accepted websocket          *)
(* connection; ChargePoint.start interleaves the once-a-minute smart       *)
(* charging evaluation with the receive loop.                              *)
(*                                                                         *)
(* The model follows the coroutine ChargePoint.start from one suspension   *)
(* or library call to the next: pc[c] is the position of session c in the  *)
(* loop.  The websocket, the wall clock, the inverter and the charge       *)
(* point are the environment.                                              *)
(***************************************************************************)
EXTENDS Integers, Sequences, FiniteSets, TLC

(***************************** bounds **************************************)
\* Number of minute changes of the wall clock that a behaviour contains.
MaxTicks == 2

(************************** program constants ******************************)
MinutesPerHour == 60          \* datetime.now().minute ranges over 0..59
MinCharge == 240              \* floor of the cap, server.py:34-35
Interval == 10                \* BootNotification interval, server.py:50
TransactionId == 1            \* StartTransaction transaction_id, server.py:79
InitialLastProfileSent == -1  \* ChargePoint._last_profile_sent, server.py:25
InitialLastMaxCharge == 0     \* ChargePoint._last_max_charge, server.py:26

(***************************** inputs **************************************)
\* Connections offered to the server.  Which of them a behaviour uses is
\* fixed by Init (variable clients).
Conns == {1, 2}

\* Values and unit strings of stats.Body.Data.PAC returned by the inverter;
\* the empty string is the default unit of solar_api.py:12.
Readings == {100, 250, 300}
Units == {"W", "A", ""}

\* Wall-clock minutes at which the process may be started.
StartMinutes == {0, 59}

\* Unique ids a charge point uses for its own Calls.
CpUids == {"a", "b"}

VARIABLES
    clients,             \* connections that are made in this behaviour
    now,                 \* datetime.now().minute
    ticks,               \* minute changes so far
    ws,                  \* state of the websocket of connection c
    requested,           \* its Sec-WebSocket-Protocol request header
    subprotocol,         \* websocket.subprotocol, the negotiated subprotocol
    pc,                  \* position of ChargePoint.start of session c
    _last_profile_sent,  \* ChargePoint._last_profile_sent
    _last_max_charge,    \* ChargePoint._last_max_charge
    reading,             \* value returned by read_power() in this evaluation
    max_charge,          \* local max_charge of start
    unit_power,          \* local unit_power of start
    message,             \* local message of start: the last frame received
    calls,               \* outbound Calls made so far (unique ids 1..calls)
    unanswered,          \* ids of outbound Calls with no response received
    pending,             \* pending-response slots of the session, by id
    wire,                \* the last frame the server wrote to the connection
    exc                  \* the exception that ended start() and the position
                         \* it was raised at; NoException while start() runs

vars == <<clients, now, ticks, ws, requested, subprotocol, pc,
          _last_profile_sent, _last_max_charge, reading, max_charge,
          unit_power, message, calls, unanswered, pending, wire, exc>>

NoFrame == [type |-> "none"]
NoException == [error |-> "none", at |-> "none"]

(************************ connection gatekeeper ****************************)
\* Subprotocols the server is started with.
Supported == {"ocpp1.6"}

\* The Sec-WebSocket-Protocol request header of a client: absent, or a
\* non-empty list of subprotocols.
RequestHeaders ==
    {[present |-> FALSE, protocols |-> {}]} \cup
    {[present |-> TRUE, protocols |-> P] :
        P \in (SUBSET {"ocpp1.6", "ocpp2.0.1"}) \ {{}}}

\* The websockets handshake: the negotiated subprotocol is one that the
\* client requested and the server supports, "none" when there is none.
Negotiate(hdr) ==
    IF hdr.protocols \cap Supported # {}
    THEN CHOOSE p \in hdr.protocols \cap Supported : TRUE
    ELSE "none"

(**************************** smart charging *******************************)
\* The floor left out: the reading is used as it is.
ClampNoFloor(v) == v

\* server.py:34-35
Clamp(v) == IF v < MinCharge THEN MinCharge ELSE v

\* chargingRateUnit values the SetChargingProfile schema of OCPP 1.6 allows.
RateUnits == {"A", "W"}

ClearChargingProfilePayload == [action |-> "ClearChargingProfile"]

\* server.py:90-107; minChargingRate 0.1 is kept as text.
SetChargingProfilePayload(limit, charge_unit) ==
    [action |-> "SetChargingProfile",
     connectorId |-> 0,
     chargingProfileId |-> 2,
     stackLevel |-> 2,
     chargingProfilePurpose |-> "ChargePointMaxProfile",
     chargingProfileKind |-> "Absolute",
     chargingRateUnit |-> charge_unit,
     startPeriod |-> 0,
     limit |-> limit,
     minChargingRate |-> "0.1"]

\* validate_payload(call, ocpp_version) on an outbound Call.
ValidPayload(payload) ==
    \/ payload.action = "ClearChargingProfile"
    \/ /\ payload.action = "SetChargingProfile"
       /\ payload.chargingRateUnit \in RateUnits

OutCall(uid, payload) == [type |-> "Call", uid |-> uid, payload |-> payload]

(****************************** handlers ***********************************)
\* Actions with a handler registered by @on.
Registered ==
    {"BootNotification", "Heartbeat", "MeterValues", "StatusNotification",
     "Authorize", "StartTransaction"}

\* Actions the charge point names in its Calls; FooBar has no handler.
InboundActions ==
    {"BootNotification", "Heartbeat", "StartTransaction", "FooBar"}

\* The keyword names under which the dispatcher hands a schema-valid payload
\* to the handler: the payload's required fields in snake case.
PayloadFields(action) ==
    CASE action = "BootNotification" ->
            {"charge_point_vendor", "charge_point_model"}
      [] action = "Heartbeat" -> {}
      [] action = "MeterValues" -> {"connector_id", "meter_value"}
      [] action = "StatusNotification" ->
            {"connector_id", "error_code", "status"}
      [] action = "Authorize" -> {"id_tag"}
      [] action = "StartTransaction" ->
            {"connector_id", "id_tag", "meter_start", "timestamp"}
      [] OTHER -> {}

\* Python's binding of a keyword-only invocation f(**kw) to a signature with
\* the required parameters params: every required parameter must be among
\* the keywords, and keywords that name no parameter are accepted only by a
\* signature with **kwargs.
Binds(params, var_keywords, kw) ==
    /\ params \subseteq kw
    /\ var_keywords \/ kw \subseteq params

Returned(payload) == [ok |-> TRUE, payload |-> payload]
Raised(error) == [ok |-> FALSE, error |-> error]

\* server.py:45-52
on_boot_notification(kw) ==
    IF Binds({"_charge_point_vendor", "_charge_point_model"}, TRUE, kw)
    THEN Returned([current_time |-> "utcnow", interval |-> Interval,
                   status |-> "Accepted"])
    ELSE Raised("TypeError")

\* on_heartbeat declared with a required parameter the payload never names.
on_heartbeat_with_parameter(kw) ==
    IF Binds({"_current_time"}, TRUE, kw)
    THEN Returned([current_time |-> "utcnow"])
    ELSE Raised("TypeError")

\* server.py:54-57
on_heartbeat(kw) ==
    IF Binds({}, FALSE, kw)
    THEN Returned([current_time |-> "utcnow"])
    ELSE Raised("TypeError")

\* server.py:59-62
on_meter_values(kw) ==
    IF Binds({"_connector_id", "_meter_value"}, TRUE, kw)
    THEN Returned([empty |-> TRUE])
    ELSE Raised("TypeError")

\* server.py:64-67
on_status_notification(kw) ==
    IF Binds({"_connector_id", "_status"}, TRUE, kw)
    THEN Returned([empty |-> TRUE])
    ELSE Raised("TypeError")

\* server.py:69-72
on_authorize(kw) ==
    IF Binds({"_id_tag"}, TRUE, kw)
    THEN Returned([id_tag_info |-> [status |-> "Accepted"]])
    ELSE Raised("TypeError")

\* server.py:74-79
on_start_transaction(kw) ==
    IF Binds({"_connector_id", "_id_tag", "_meter_start", "_timestamp"},
             TRUE, kw)
    THEN Returned([id_tag_info |-> [status |-> "Accepted"],
                   transaction_id |-> TransactionId])
    ELSE Raised("TypeError")

\* The route map built from the @on decorators.
Handler(action, kw) ==
    CASE action = "BootNotification" -> on_boot_notification(kw)
      [] action = "Heartbeat" -> on_heartbeat(kw)
      [] action = "MeterValues" -> on_meter_values(kw)
      [] action = "StatusNotification" -> on_status_notification(kw)
      [] action = "Authorize" -> on_authorize(kw)
      [] action = "StartTransaction" -> on_start_transaction(kw)

(************************** frames on the wire *****************************)
CallResult(uid, payload) ==
    [type |-> "CallResult", uid |-> uid, payload |-> payload]
CallError(uid, code) ==
    [type |-> "CallError", uid |-> uid, code |-> code]

\* The outbound Call the charge point answers next: it answers the Calls it
\* has received in their order.
Oldest(ids) == CHOOSE i \in ids : \A j \in ids : i <= j

\* Frames the charge point may send on connection c: its own Calls, with a
\* payload that is valid for the action or not; a response to the oldest
\* outbound Call it has not answered yet, or to one that does not exist
\* (id 0); a frame that does not decode.
InboundFrames(c) ==
    {[type |-> "Call", uid |-> u, action |-> a, valid |-> v] :
        u \in CpUids, a \in InboundActions, v \in BOOLEAN} \cup
    {[type |-> t, uid |-> u] :
        t \in {"CallResult", "CallError"},
        u \in {0} \cup (IF unanswered[c] = {} THEN {}
                        ELSE {Oldest(unanswered[c])})} \cup
    {[type |-> "Malformed"]}

\* dispatch(session, call): the envelope that answers an inbound Call.
Dispatch(call) ==
    IF call.action \notin Registered
    THEN CallError(call.uid, "NotImplemented")
    ELSE IF ~call.valid
    THEN CallError(call.uid, "FormationViolation")
    ELSE LET r == Handler(call.action, PayloadFields(call.action))
         IN  IF r.ok THEN CallResult(call.uid, r.payload)
             ELSE CallError(call.uid, "InternalError")

(***************************** initial state *******************************)
\* The initial state if the class attribute _last_max_charge were the floor
\* instead of 0.
InitWithCapAtFloor(cs) ==
    /\ clients = cs
    /\ now \in StartMinutes
    /\ ticks = 0
    /\ ws = [c \in Conns |-> "none"]
    /\ requested = [c \in Conns |-> [present |-> FALSE, protocols |-> {}]]
    /\ subprotocol = [c \in Conns |-> "none"]
    /\ pc = [c \in Conns |-> "none"]
    /\ _last_profile_sent = [c \in Conns |-> InitialLastProfileSent]
    /\ _last_max_charge = [c \in Conns |-> MinCharge]
    /\ reading = [c \in Conns |-> 0]
    /\ max_charge = [c \in Conns |-> 0]
    /\ unit_power = [c \in Conns |-> ""]
    /\ message = [c \in Conns |-> NoFrame]
    /\ calls = [c \in Conns |-> 0]
    /\ unanswered = [c \in Conns |-> {}]
    /\ pending = [c \in Conns |-> {}]
    /\ wire = [c \in Conns |-> NoFrame]
    /\ exc = [c \in Conns |-> NoException]

\* No connection has been made; every ChargePoint that will be created has
\* the class attributes of server.py:25-26.
InitWith(cs) ==
    /\ clients = cs
    /\ now \in StartMinutes
    /\ ticks = 0
    /\ ws = [c \in Conns |-> "none"]
    /\ requested = [c \in Conns |-> [present |-> FALSE, protocols |-> {}]]
    /\ subprotocol = [c \in Conns |-> "none"]
    /\ pc = [c \in Conns |-> "none"]
    /\ _last_profile_sent = [c \in Conns |-> InitialLastProfileSent]
    /\ _last_max_charge = [c \in Conns |-> InitialLastMaxCharge]
    /\ reading = [c \in Conns |-> 0]
    /\ max_charge = [c \in Conns |-> 0]
    /\ unit_power = [c \in Conns |-> ""]
    /\ message = [c \in Conns |-> NoFrame]
    /\ calls = [c \in Conns |-> 0]
    /\ unanswered = [c \in Conns |-> {}]
    /\ pending = [c \in Conns |-> {}]
    /\ wire = [c \in Conns |-> NoFrame]
    /\ exc = [c \in Conns |-> NoException]

Init == InitWith({1})

(****************************** environment ********************************)
\* The wall clock reaches the next minute.
Tick ==
    /\ ticks < MaxTicks
    /\ now' = (now + 1) % MinutesPerHour
    /\ ticks' = ticks + 1
    /\ UNCHANGED <<clients, ws, requested, subprotocol, pc,
                   _last_profile_sent, _last_max_charge, reading, max_charge,
                   unit_power, message, calls, unanswered, pending, wire, exc>>

\* A client completes the websocket handshake with the server of main().
Connect(c) ==
    /\ c \in clients
    /\ ws[c] = "none"
    /\ \E hdr \in RequestHeaders :
          /\ requested' = [requested EXCEPT ![c] = hdr]
          /\ subprotocol' = [subprotocol EXCEPT ![c] = Negotiate(hdr)]
    /\ ws' = [ws EXCEPT ![c] = "open"]
    /\ UNCHANGED <<clients, now, ticks, pc, _last_profile_sent,
                   _last_max_charge, reading, max_charge, unit_power, message,
                   calls, unanswered, pending, wire, exc>>

\* The peer or the network closes the connection of a session.
Disconnect(c) ==
    /\ ws[c] = "open"
    /\ pc[c] \notin {"none", "done"}
    /\ ws' = [ws EXCEPT ![c] = "closed"]
    /\ UNCHANGED <<clients, now, ticks, requested, subprotocol, pc,
                   _last_profile_sent, _last_max_charge, reading, max_charge,
                   unit_power, message, calls, unanswered, pending, wire, exc>>

(****************************** event loop *********************************)
\* Every session is a coroutine of the one event loop of main()
\* (server.py:153-169).  read_power (solar_api.py:5-18) is an ordinary
\* function that start() calls without await (server.py:33) and that waits
\* for the HTTP response inside requests.get: while a session is in it the
\* thread of the event loop is held and no coroutine of the process runs.
EventLoopFree(c) == \A d \in Conns \ {c} : pc[d] # "read_power"

(****************************** on_connect *********************************)
\* on_connect without the test of websocket.subprotocol: a session is
\* created for every client that sent the header.
on_connect_any_subprotocol(c) ==
    /\ ws[c] = "open"
    /\ pc[c] = "none"
    /\ EventLoopFree(c)
    /\ IF ~requested[c].present
       THEN /\ ws' = [ws EXCEPT ![c] = "closed"]
            /\ pc' = pc
       ELSE /\ pc' = [pc EXCEPT ![c] = "top"]
            /\ ws' = ws
    /\ UNCHANGED <<clients, now, ticks, requested, subprotocol,
                   _last_profile_sent, _last_max_charge, reading, max_charge,
                   unit_power, message, calls, unanswered, pending, wire, exc>>

\* server.py:121-150
on_connect(c) ==
    /\ ws[c] = "open"
    /\ pc[c] = "none"
    /\ EventLoopFree(c)
    /\ IF ~requested[c].present
       THEN /\ ws' = [ws EXCEPT ![c] = "closed"]
            /\ pc' = pc
       ELSE IF subprotocol[c] # "none"
       THEN /\ pc' = [pc EXCEPT ![c] = "top"]
            /\ ws' = ws
       ELSE /\ ws' = [ws EXCEPT ![c] = "closed"]
            /\ pc' = pc
    /\ UNCHANGED <<clients, now, ticks, requested, subprotocol,
                   _last_profile_sent, _last_max_charge, reading, max_charge,
                   unit_power, message, calls, unanswered, pending, wire, exc>>

(************************** ChargePoint.start ******************************)
\* An exception leaves start(): nothing in start() or on_connect() catches
\* it, the handler coroutine ends and the connection is closed.
Raise(c, e) ==
    /\ pc' = [pc EXCEPT ![c] = "done"]
    /\ exc' = [exc EXCEPT ![c] = [error |-> e, at |-> pc[c]]]
    /\ ws' = [ws EXCEPT ![c] = "closed"]

\* send_payload without the call of validate_payload: only a closed
\* connection stops a Call.
SendFailureUnvalidated(c, payload) ==
    IF ws[c] # "open" THEN "ConnectionClosed" ELSE "none"

\* What stops send_payload(payload) on session c, "none" when the Call is
\* written to the connection: validate_payload raises on a payload the
\* schema rejects, _send raises on a closed connection.
SendFailure(c, payload) ==
    IF ~ValidPayload(payload) THEN "ValidationError"
    ELSE IF ws[c] # "open" THEN "ConnectionClosed"
    ELSE "none"

\* server.py:110-119.  A unique id is drawn, the payload is validated and
\* the Call is written.  Nothing is registered for the response and the
\* caller does not wait for it.
send_payload(c, payload) ==
    LET uid == calls[c] + 1
    IN  /\ calls' = [calls EXCEPT ![c] = uid]
        /\ pending' = pending
        /\ IF SendFailure(c, payload) = "none"
           THEN /\ wire' = [wire EXCEPT ![c] = OutCall(uid, payload)]
                /\ unanswered' = [unanswered EXCEPT ![c] = @ \cup {uid}]
           ELSE /\ wire' = wire
                /\ unanswered' = unanswered

\* The minute check left out: every iteration of the loop evaluates.
CheckMinuteAlwaysEvaluates(c) ==
    /\ pc[c] = "top"
    /\ EventLoopFree(c)
    /\ pc' = [pc EXCEPT ![c] = "read_power"]
    /\ message' = [message EXCEPT ![c] = NoFrame]
    /\ UNCHANGED <<clients, now, ticks, ws, requested, subprotocol,
                   _last_profile_sent, _last_max_charge, reading, max_charge,
                   unit_power, calls, unanswered, pending, wire, exc>>

\* server.py:30-32: the top of the loop, the minute check.  The frame of the
\* previous iteration is not read again.
CheckMinute(c) ==
    /\ pc[c] = "top"
    /\ EventLoopFree(c)
    /\ pc' = [pc EXCEPT ![c] =
                IF _last_profile_sent[c] # now THEN "read_power" ELSE "recv"]
    /\ message' = [message EXCEPT ![c] = NoFrame]
    /\ UNCHANGED <<clients, now, ticks, ws, requested, subprotocol,
                   _last_profile_sent, _last_max_charge, reading, max_charge,
                   unit_power, calls, unanswered, pending, wire, exc>>

\* The locals of an evaluation (server.py:33-39) outside of it, where the
\* code does not read them.
EndEvaluation(c) ==
    /\ reading' = [reading EXCEPT ![c] = 0]
    /\ max_charge' = [max_charge EXCEPT ![c] = 0]
    /\ unit_power' = [unit_power EXCEPT ![c] = ""]

\* server.py:33-36 and 40, solar_api.py:5-18: the reading, the floor and the
\* comparison with the last cap.
ReadPower(c) ==
    /\ pc[c] = "read_power"
    /\ \E current_power \in Readings, current_power_unit \in Units :
          IF Clamp(current_power) # _last_max_charge[c]
          THEN /\ reading' = [reading EXCEPT ![c] = current_power]
               /\ max_charge' = [max_charge EXCEPT ![c] = Clamp(current_power)]
               /\ unit_power' = [unit_power EXCEPT ![c] = current_power_unit]
               /\ pc' = [pc EXCEPT ![c] = "clear"]
               /\ _last_profile_sent' = _last_profile_sent
          ELSE /\ EndEvaluation(c)
               /\ pc' = [pc EXCEPT ![c] = "recv"]
               /\ _last_profile_sent' = [_last_profile_sent EXCEPT ![c] = now]
    /\ UNCHANGED <<clients, now, ticks, ws, requested, subprotocol,
                   _last_max_charge, message, calls, unanswered, pending,
                   wire, exc>>

\* server.py:37 and 81-85
clear_smart_charge_profile(c) ==
    /\ pc[c] = "clear"
    /\ EventLoopFree(c)
    /\ send_payload(c, ClearChargingProfilePayload)
    /\ IF SendFailure(c, ClearChargingProfilePayload) = "none"
       THEN /\ pc' = [pc EXCEPT ![c] = "set"]
            /\ UNCHANGED <<ws, exc>>
       ELSE Raise(c, SendFailure(c, ClearChargingProfilePayload))
    /\ UNCHANGED <<clients, now, ticks, requested, subprotocol,
                   _last_profile_sent, _last_max_charge, reading, max_charge,
                   unit_power, message>>

\* The cap and the minute recorded before the Set is sent, so that they are
\* recorded also when the Set fails.
set_smart_charge_profile_records_first(c) ==
    LET payload == SetChargingProfilePayload(max_charge[c], unit_power[c])
    IN  /\ pc[c] = "set"
        /\ EventLoopFree(c)
        /\ send_payload(c, payload)
        /\ _last_max_charge' = [_last_max_charge EXCEPT ![c] = max_charge[c]]
        /\ _last_profile_sent' = [_last_profile_sent EXCEPT ![c] = now]
        /\ IF SendFailure(c, payload) = "none"
           THEN /\ pc' = [pc EXCEPT ![c] = "recv"]
                /\ EndEvaluation(c)
                /\ UNCHANGED <<ws, exc>>
           ELSE /\ Raise(c, SendFailure(c, payload))
                /\ UNCHANGED <<reading, max_charge, unit_power>>
        /\ UNCHANGED <<clients, now, ticks, requested, subprotocol, message>>

\* server.py:38-40 and 87-108
set_smart_charge_profile(c) ==
    LET payload == SetChargingProfilePayload(max_charge[c], unit_power[c])
    IN  /\ pc[c] = "set"
        /\ EventLoopFree(c)
        /\ send_payload(c, payload)
        /\ IF SendFailure(c, payload) = "none"
           THEN /\ _last_max_charge' =
                      [_last_max_charge EXCEPT ![c] = max_charge[c]]
                /\ _last_profile_sent' =
                      [_last_profile_sent EXCEPT ![c] = now]
                /\ pc' = [pc EXCEPT ![c] = "recv"]
                /\ EndEvaluation(c)
                /\ UNCHANGED <<ws, exc>>
           ELSE /\ Raise(c, SendFailure(c, payload))
                /\ UNCHANGED <<_last_max_charge, _last_profile_sent,
                               reading, max_charge, unit_power>>
        /\ UNCHANGED <<clients, now, ticks, requested, subprotocol, message>>

\* The next frame is read while route_message is still handling the frame
\* before it (route_message started as a task instead of awaited).
RecvWhileRouting(c) ==
    /\ pc[c] \in {"recv", "route"}
    /\ EventLoopFree(c)
    /\ \/ /\ ws[c] = "open"
          /\ \E frame \in InboundFrames(c) :
                /\ message' = [message EXCEPT ![c] = frame]
                /\ unanswered' =
                      [unanswered EXCEPT ![c] =
                          IF frame.type \in {"CallResult", "CallError"}
                          THEN @ \ {frame.uid} ELSE @]
          /\ pc' = [pc EXCEPT ![c] = "route"]
          /\ UNCHANGED <<ws, exc>>
       \/ /\ ws[c] # "open"
          /\ Raise(c, "ConnectionClosed")
          /\ UNCHANGED <<message, unanswered>>
    /\ UNCHANGED <<clients, now, ticks, requested, subprotocol,
                   _last_profile_sent, _last_max_charge, reading, max_charge,
                   unit_power, calls, pending, wire>>

\* server.py:41 with the frames the charge point may have sent: the next of
\* them, or ConnectionClosed.
RecvFrom(c, frames) ==
    /\ pc[c] = "recv"
    /\ EventLoopFree(c)
    /\ \/ /\ ws[c] = "open"
          /\ \E frame \in frames :
                /\ message' = [message EXCEPT ![c] = frame]
                /\ unanswered' =
                      [unanswered EXCEPT ![c] =
                          IF frame.type \in {"CallResult", "CallError"}
                          THEN @ \ {frame.uid} ELSE @]
          /\ pc' = [pc EXCEPT ![c] = "route"]
          /\ UNCHANGED <<ws, exc>>
       \/ /\ ws[c] # "open"
          /\ Raise(c, "ConnectionClosed")
          /\ UNCHANGED <<message, unanswered>>
    /\ UNCHANGED <<clients, now, ticks, requested, subprotocol,
                   _last_profile_sent, _last_max_charge, reading, max_charge,
                   unit_power, calls, pending, wire>>

\* server.py:41: the next frame of the connection, or ConnectionClosed.
Recv(c) == RecvFrom(c, InboundFrames(c))

\* route_message without the handling of a decode failure: the error of a
\* frame that does not decode leaves start().
route_message_decode_raises(c) ==
    /\ pc[c] = "route"
    /\ EventLoopFree(c)
    /\ IF message[c].type = "Call"
       THEN IF ws[c] = "open"
            THEN /\ wire' = [wire EXCEPT ![c] = Dispatch(message[c])]
                 /\ pc' = [pc EXCEPT ![c] = "top"]
                 /\ UNCHANGED <<ws, exc, pending>>
            ELSE /\ Raise(c, "ConnectionClosed")
                 /\ UNCHANGED <<wire, pending>>
       ELSE IF message[c].type = "Malformed"
       THEN /\ Raise(c, "FormatViolationError")
            /\ UNCHANGED <<wire, pending>>
       ELSE /\ pending' = [pending EXCEPT ![c] = @ \ {message[c].uid}]
            /\ pc' = [pc EXCEPT ![c] = "top"]
            /\ UNCHANGED <<ws, exc, wire>>
    /\ UNCHANGED <<clients, now, ticks, requested, subprotocol,
                   _last_profile_sent, _last_max_charge, reading, max_charge,
                   unit_power, message, calls, unanswered>>

\* server.py:43: the frame is decoded; a Call is dispatched and answered, a
\* CallResult or CallError resolves the pending slot of its id if there is
\* one, a frame that does not decode is discarded.
route_message(c) ==
    /\ pc[c] = "route"
    /\ EventLoopFree(c)
    /\ IF message[c].type = "Call"
       THEN IF ws[c] = "open"
            THEN /\ wire' = [wire EXCEPT ![c] = Dispatch(message[c])]
                 /\ pc' = [pc EXCEPT ![c] = "top"]
                 /\ UNCHANGED <<ws, exc, pending>>
            ELSE /\ Raise(c, "ConnectionClosed")
                 /\ UNCHANGED <<wire, pending>>
       ELSE /\ pending' =
                  [pending EXCEPT ![c] =
                      IF message[c].type \in {"CallResult", "CallError"}
                      THEN @ \ {message[c].uid} ELSE @]
            /\ pc' = [pc EXCEPT ![c] = "top"]
            /\ UNCHANGED <<ws, exc, wire>>
    /\ UNCHANGED <<clients, now, ticks, requested, subprotocol,
                   _last_profile_sent, _last_max_charge, reading, max_charge,
                   unit_power, message, calls, unanswered>>

(***************************** specification *******************************)
Next ==
    \/ Tick
    \/ \E c \in Conns : Connect(c)
    \/ \E c \in Conns : Disconnect(c)
    \/ \E c \in Conns : on_connect(c)
    \/ \E c \in Conns : CheckMinute(c)
    \/ \E c \in Conns : ReadPower(c)
    \/ \E c \in Conns : clear_smart_charge_profile(c)
    \/ \E c \in Conns : set_smart_charge_profile(c)
    \/ \E c \in Conns : Recv(c)
    \/ \E c \in Conns : route_message(c)

Spec == Init /\ [][Next]_vars

\* Two charge points connected to the one process, within one minute; each
\* sends Heartbeat Calls only.
InitTwo == InitWith(Conns)

HeartbeatFrames ==
    {[type |-> "Call", uid |-> "a", action |-> "Heartbeat", valid |-> TRUE]}

RecvHeartbeat(c) == RecvFrom(c, HeartbeatFrames)

NextTwo ==
    \/ \E c \in Conns : Connect(c)
    \/ \E c \in Conns : Disconnect(c)
    \/ \E c \in Conns : on_connect(c)
    \/ \E c \in Conns : CheckMinute(c)
    \/ \E c \in Conns : ReadPower(c)
    \/ \E c \in Conns : clear_smart_charge_profile(c)
    \/ \E c \in Conns : set_smart_charge_profile(c)
    \/ \E c \in Conns : RecvHeartbeat(c)
    \/ \E c \in Conns : route_message(c)

SpecTwo == InitTwo /\ [][NextTwo]_vars

(******************************* claims ************************************)
IsOutCall(frame, action) ==
    /\ frame.type = "Call"
    /\ frame.payload.action = action

\* C1: in a cycle the SetChargingProfile Call is issued only after the
\* response to the cycle's ClearChargingProfile Call has been received: the
\* two Calls of a cycle (ids n-1 and n) are never unanswered together.
C1_SetAfterClearAnswered ==
    \A c \in Conns :
        IsOutCall(wire[c], "SetChargingProfile") =>
            ~({wire[c].uid - 1, wire[c].uid} \subseteq unanswered[c])

\* C2: an evaluation issues the (Clear, Set) pair if and only if the clamped
\* reading differs from the last applied cap: an evaluation that finds the
\* cap unchanged draws no Call, and one that finds it changed writes, on a
\* connection that is open, the Clear and then the Set with the new cap.
C2_PairIffCapChanged ==
    [][\A c \in Conns :
         /\ (pc[c] = "read_power" /\ pc'[c] = "recv") =>
                /\ calls'[c] = calls[c]
                /\ wire'[c] = wire[c]
         /\ (pc[c] = "read_power" /\ pc'[c] = "clear") =>
                max_charge'[c] # _last_max_charge[c]
         /\ (pc[c] = "clear" /\ pc'[c] # "clear" /\ ws[c] = "open") =>
                IsOutCall(wire'[c], "ClearChargingProfile")
         /\ (pc[c] = "set" /\ pc'[c] # "set" /\ ws[c] = "open") =>
                /\ IsOutCall(wire'[c], "SetChargingProfile")
                /\ wire'[c].payload.limit = max_charge[c]]_vars

\* C3: a reading below 240 gives the cap 240 and a reading of 240 or more
\* gives the reading itself; the limit of a SetChargingProfile on the wire
\* is the cap recorded with it and is never below 240.
C3_FloorClamp ==
    \A c \in Conns :
        /\ pc[c] \in {"clear", "set"} =>
              /\ reading[c] < 240 => max_charge[c] = 240
              /\ reading[c] >= 240 => max_charge[c] = reading[c]
        /\ IsOutCall(wire[c], "SetChargingProfile") =>
              /\ wire[c].payload.limit >= 240
              /\ wire[c].payload.limit = _last_max_charge[c]

\* A reading of 100 W has been clamped to 240 and the cycle has sent its
\* Clear.
C3_Witness ==
    \E c \in Conns :
        /\ pc[c] = "set"
        /\ reading[c] = 100
        /\ max_charge[c] = 240
        /\ IsOutCall(wire[c], "ClearChargingProfile")

\* C4: a failure of an outbound Call of a cycle does not end the session,
\* and leaves the last applied cap at its previous value.
C4_FailedCycleKeepsSession ==
    \A c \in Conns :
        /\ exc[c].at \notin {"clear", "set"}
        /\ pc[c] = "done" => _last_max_charge[c] # max_charge[c]

\* C5: in a cycle whose reading has a unit other than W no Call is sent:
\* a cycle that has written its Clear read the unit W.
C5_NoCallForUnknownUnit ==
    \A c \in Conns :
        (pc[c] = "set" /\ IsOutCall(wire[c], "ClearChargingProfile")) =>
            unit_power[c] = "W"

IsInCall(frame, action) ==
    /\ frame.type = "Call"
    /\ frame.action = action

\* C6: a Call whose action has no handler is answered with a CallError
\* NotImplemented that carries the Call's unique id, and start() goes on;
\* a valid Heartbeat Call is answered with a CallResult that carries its
\* unique id.  (pc = "top": route_message has returned for message.)
C6_UnknownActionNotImplemented ==
    \A c \in Conns :
        /\ (pc[c] = "top" /\ IsInCall(message[c], "FooBar")) =>
              /\ wire[c].type = "CallError"
              /\ wire[c].code = "NotImplemented"
              /\ wire[c].uid = message[c].uid
              /\ exc[c].error = "none"
        /\ (pc[c] = "top" /\ IsInCall(message[c], "Heartbeat")
                          /\ message[c].valid) =>
              /\ wire[c].type = "CallResult"
              /\ wire[c].uid = message[c].uid
              /\ wire[c].payload = [current_time |-> "utcnow"]

\* A Heartbeat has been received on a session whose last frame written is
\* the NotImplemented answer to a FooBar Call.
C6_Witness ==
    \E c \in Conns :
        /\ pc[c] = "route"
        /\ IsInCall(message[c], "Heartbeat")
        /\ message[c].valid
        /\ wire[c].type = "CallError"
        /\ wire[c].code = "NotImplemented"
        /\ exc[c].error = "none"

\* C7: a session exists only on a connection whose client requested
\* ocpp1.6; on a connection whose client sent no subprotocol header, or
\* none that contains ocpp1.6, there is no session, nothing is written,
\* no frame is received and no reading is taken.
C7_SubprotocolRejection ==
    \A c \in Conns :
        /\ pc[c] # "none" =>
              /\ requested[c].present
              /\ "ocpp1.6" \in requested[c].protocols
              /\ subprotocol[c] = "ocpp1.6"
        /\ (ws[c] # "none" /\ (~requested[c].present
                                \/ "ocpp1.6" \notin requested[c].protocols)) =>
              /\ pc[c] = "none"
              /\ wire[c] = NoFrame
              /\ message[c] = NoFrame
              /\ calls[c] = 0
              /\ max_charge[c] = 0
              /\ _last_max_charge[c] = 0

\* on_connect has closed the connection of a client that offered only
\* ocpp2.0.1.
C7_Witness ==
    \E c \in Conns :
        /\ ws[c] = "closed"
        /\ requested[c] = [present |-> TRUE, protocols |-> {"ocpp2.0.1"}]
        /\ pc[c] = "none"

\* C8: a BootNotification Call with a valid payload is answered with a
\* CallResult that carries its unique id, status Accepted, interval 10 and
\* a current_time.
C8_BootNotificationAccepted ==
    \A c \in Conns :
        (pc[c] = "top" /\ IsInCall(message[c], "BootNotification")
                      /\ message[c].valid) =>
            /\ wire[c].type = "CallResult"
            /\ wire[c].uid = message[c].uid
            /\ wire[c].payload = [current_time |-> "utcnow", interval |-> 10,
                                  status |-> "Accepted"]

\* C9: every StartTransaction Call with a valid payload is answered with a
\* CallResult that carries id_tag_info.status Accepted and transaction_id 1.
C9_StartTransactionIdOne ==
    \A c \in Conns :
        (pc[c] = "top" /\ IsInCall(message[c], "StartTransaction")
                      /\ message[c].valid) =>
            /\ wire[c].type = "CallResult"
            /\ wire[c].uid = message[c].uid
            /\ wire[c].payload = [id_tag_info |-> [status |-> "Accepted"],
                                  transaction_id |-> 1]

\* C10: every outbound Call that has been written and not answered has a
\* pending slot under its unique id.
C10_PendingSlotPerCall ==
    \A c \in Conns : unanswered[c] \subseteq pending[c]

C12_UnansweredCallAbortsCycle ==
    \A c \in Conns :
        (IsOutCall(wire[c], "SetChargingProfile")
            /\ wire[c].uid \in unanswered[c]) =>
                _last_max_charge[c] # wire[c].payload.limit

\* C13: an evaluation starts only from a minute check that finds the minute
\* different from the last evaluated one, and a reading is taken only in an
\* evaluation; a check that finds the minute unchanged goes on to recv(),
\* takes no reading, draws no Call, writes nothing and changes neither the
\* last cap nor the last evaluated minute.
C13_AtMostOncePerMinute ==
    [][\A c \in Conns :
         /\ (pc[c] # "read_power" /\ pc'[c] = "read_power") =>
                /\ pc[c] = "top"
                /\ _last_profile_sent[c] # now
         /\ reading'[c] # reading[c] => pc[c] \in {"read_power", "set"}
         /\ (pc[c] = "top" /\ pc'[c] # "top"
                /\ _last_profile_sent[c] = now) =>
                /\ pc'[c] = "recv"
                /\ reading'[c] = reading[c]
                /\ max_charge'[c] = max_charge[c]
                /\ calls'[c] = calls[c]
                /\ wire'[c] = wire[c]
                /\ _last_max_charge'[c] = _last_max_charge[c]
                /\ _last_profile_sent'[c] = _last_profile_sent[c]]_vars

\* Within the minute of the first evaluation a second iteration of the loop
\* has passed the minute check without evaluating: start() waits in recv()
\* and the last frame written is still the answer of the first iteration.
C13_Witness ==
    \E c \in Conns :
        /\ ticks = 0
        /\ pc[c] = "recv"
        /\ _last_profile_sent[c] = now
        /\ wire[c].type = "CallResult"
        /\ calls[c] = 2

\* A step of start() on session c that needs no inbound frame.
StepWithoutFrame(c) ==
    \/ CheckMinute(c)
    \/ ReadPower(c)
    \/ clear_smart_charge_profile(c)
    \/ set_smart_charge_profile(c)
    \/ route_message(c)

\* C14: the evaluation is not starved by an idle connection: whenever the
\* minute differs from the last evaluated one on a running session with an
\* open connection, start() can go on towards the evaluation without the
\* charge point sending a frame.
C14_EvaluationNotStarved ==
    \A c \in Conns :
        (pc[c] \notin {"none", "done"} /\ ws[c] = "open"
            /\ _last_profile_sent[c] # now) =>
                ENABLED StepWithoutFrame(c)

IsResponse(frame) == frame.type \in {"CallResult", "CallError"}

\* C15: inbound Calls are handled one at a time in their order: when
\* route_message returns for a Call the answer with the Call's unique id is
\* the frame just written, and a frame is read only in recv(), after the
\* handling of the frame before it has ended.
C15_OneInboundCallAtATime ==
    [][\A c \in Conns :
         /\ (pc[c] = "route" /\ message[c].type = "Call"
                /\ pc'[c] # "route") =>
                \/ pc'[c] = "done"
                \/ /\ pc'[c] = "top"
                   /\ IsResponse(wire'[c])
                   /\ wire'[c].uid = message[c].uid
         /\ (message'[c] # message[c] /\ message'[c] # NoFrame) =>
                /\ pc[c] = "recv"
                /\ message[c] = NoFrame]_vars

\* The Call with id b has been read while the last frame written is the
\* answer to the Call with id a.
C15_Witness ==
    \E c \in Conns :
        /\ pc[c] = "route"
        /\ message[c].type = "Call"
        /\ message[c].uid = "b"
        /\ IsResponse(wire[c])
        /\ wire[c].uid = "a"

\* C16: a solar reading in progress for one session does not block the
\* receive loop of another: while session a is in read_power, session b
\* with an open connection can receive the next frame and can answer the
\* Call it has received.
C16_ReadingDoesNotBlockOthers ==
    \A a \in Conns, b \in Conns :
        (a # b /\ pc[a] = "read_power" /\ ws[b] = "open") =>
            /\ pc[b] = "recv" => ENABLED RecvHeartbeat(b)
            /\ pc[b] = "route" => ENABLED route_message(b)

\* C17: every outbound Call is validated against the schema of its action
\* before it is sent: a Call on the wire has a payload the schema accepts,
\* and when validation of a SetChargingProfile fails the last frame written
\* is still the ClearChargingProfile of the cycle.
C17_ValidatedBeforeSend ==
    \A c \in Conns :
        /\ wire[c].type = "Call" => ValidPayload(wire[c].payload)
        /\ exc[c].error = "ValidationError" =>
              /\ exc[c].at = "set"
              /\ IsOutCall(wire[c], "ClearChargingProfile")
              /\ wire[c].uid = calls[c] - 1

\* The SetChargingProfile of a reading with unit '' was refused by
\* validate_payload.
C17_Witness ==
    \E c \in Conns :
        /\ pc[c] = "done"
        /\ exc[c] = [error |-> "ValidationError", at |-> "set"]
        /\ IsOutCall(wire[c], "ClearChargingProfile")
        /\ calls[c] = 2

\* C18: no cycle leaves the charge point cleared without a replacement
\* profile: a ClearChargingProfile is the last frame written only while the
\* cycle is about to send its SetChargingProfile, unless the connection was
\* lost in between.
C18_ClearFollowedBySet ==
    \A c \in Conns :
        (IsOutCall(wire[c], "ClearChargingProfile") /\ pc[c] # "set") =>
            exc[c].error = "ConnectionClosed"

\* C19: the first iteration of a new session always evaluates and always
\* finds the cap changed: by the time the session reads its first inbound
\* frame two Calls have been drawn, the Clear and the Set, the cap recorded
\* is at least 240 and the minute recorded is a real minute; until then the
\* session has answered nothing.
C19_FirstCycleBeforeFirstFrame ==
    \A c \in Conns :
        /\ (pc[c] \in {"recv", "route"} \/ message[c] # NoFrame
                \/ IsResponse(wire[c])) =>
              /\ calls[c] >= 2
              /\ _last_max_charge[c] >= MinCharge
              /\ _last_profile_sent[c] \in 0..(MinutesPerHour - 1)
        /\ (pc[c] = "set" /\ calls[c] = 1) =>
              /\ IsOutCall(wire[c], "ClearChargingProfile")
              /\ message[c] = NoFrame
              /\ _last_max_charge[c] = InitialLastMaxCharge
              /\ _last_profile_sent[c] = InitialLastProfileSent

\* The BootNotification of the charge point is the first frame read, after
\* the Clear and the Set of the first cycle.
C19_Witness ==
    \E c \in Conns :
        /\ pc[c] = "route"
        /\ IsInCall(message[c], "BootNotification")
        /\ calls[c] = 2
        /\ IsOutCall(wire[c], "SetChargingProfile")
        /\ wire[c].uid = 2

\* C20: the recorded last cap is 0 or at least 240; it changes only in the
\* step that writes the SetChargingProfile of a cycle whose Clear was
\* written, to the limit that Set carries; every Set written records its
\* limit as the cap; the handling of an inbound frame never changes the
\* cap or the recorded minute.
C20_LastCapIsLastSetLimit ==
    /\ [](\A c \in Conns :
             \/ _last_max_charge[c] = InitialLastMaxCharge
             \/ _last_max_charge[c] >= MinCharge)
    /\ [][\A c \in Conns :
            /\ _last_max_charge'[c] # _last_max_charge[c] =>
                   /\ pc[c] = "set"
                   /\ IsOutCall(wire[c], "ClearChargingProfile")
                   /\ IsOutCall(wire'[c], "SetChargingProfile")
                   /\ wire'[c].uid = wire[c].uid + 1
                   /\ wire'[c].payload.limit = _last_max_charge'[c]
            /\ (IsOutCall(wire'[c], "SetChargingProfile")
                   /\ wire'[c] # wire[c]) =>
                   _last_max_charge'[c] = wire'[c].payload.limit
            /\ pc[c] \in {"recv", "route"} =>
                   /\ _last_max_charge'[c] = _last_max_charge[c]
                   /\ _last_profile_sent'[c] = _last_profile_sent[c]]_vars

\* The cap has been replaced a second time: it is the limit of the Set of
\* the second cycle.
C20_Witness ==
    \E c \in Conns :
        /\ pc[c] = "recv"
        /\ calls[c] = 4
        /\ _last_max_charge[c] = 300
        /\ IsOutCall(wire[c], "SetChargingProfile")
        /\ wire[c].payload.limit = 300

=============================================================================
